---- MODULE Spec2Model ----
(***************************************************************************)
(* Model of videoCutter: the timestamp parser and formatter, the output    *)
(* path deriver, the ffmpeg locator, the command builder and cut_video     *)
(* (src/video_cutter.py), the CLI main, and the PySide6 window that runs   *)
(* cut_video on a worker thread (src/video_cutter_gui.py).                 *)
(*                                                                         *)
(* Text is a sequence of one-character strings.  A Python float is an      *)
(* exact decimal with a resolution of 1/10 ms, [k |-> "fin", ms, sub]      *)
(* standing for (ms + sub/10) milliseconds with sub in 0..9 (floor form),  *)
(* or one of the specials inf / -inf / nan that float() also accepts.      *)
(***************************************************************************)
EXTENDS Integers, Sequences, FiniteSets, TLC

VARIABLES
    tsArg, tsOut,                              \* harness of the pure functions
    args, pc, frame, child, proc, log,         \* the CLI process
    win, dialog, workers, events, fs, session  \* the GUI process

tsVars == <<tsArg, tsOut>>
cliVars == <<args, pc, frame, child, proc, log>>
guiVars == <<win, dialog, workers, events, fs, session>>
vars == <<tsArg, tsOut, args, pc, frame, child, proc, log,
          win, dialog, workers, events, fs, session>>

-----------------------------------------------------------------------------
(* Text helpers                                                            *)

DigitChars == {"0", "1", "2", "3", "4", "5", "6", "7", "8", "9"}

DigitSeq == <<"0", "1", "2", "3", "4", "5", "6", "7", "8", "9">>

DigitValue(c) == (CHOOSE i \in 1..10 : DigitSeq[i] = c) - 1

RECURSIVE LStrip(_)
LStrip(s) == IF s # <<>> /\ Head(s) = " " THEN LStrip(Tail(s)) ELSE s

RECURSIVE RStrip(_)
RStrip(s) ==
    IF s # <<>> /\ s[Len(s)] = " " THEN RStrip(SubSeq(s, 1, Len(s) - 1)) ELSE s

\* str.strip()
Strip(s) == RStrip(LStrip(s))

\* str.find(c) + 1: the first position of c in s, 0 when absent
IndexOf(s, c) ==
    IF \E i \in 1..Len(s) : s[i] = c
    THEN CHOOSE i \in 1..Len(s) : s[i] = c /\ \A j \in 1..(i - 1) : s[j] # c
    ELSE 0

\* str.rfind(c) + 1
RIndexOf(s, c) ==
    IF \E i \in 1..Len(s) : s[i] = c
    THEN CHOOSE i \in 1..Len(s) : s[i] = c /\ \A j \in (i + 1)..Len(s) : s[j] # c
    ELSE 0

\* str.split(c)
RECURSIVE Split(_, _)
Split(s, c) ==
    LET i == IndexOf(s, c)
    IN  IF i = 0 THEN <<s>>
        ELSE <<SubSeq(s, 1, i - 1)>> \o Split(SubSeq(s, i + 1, Len(s)), c)

\* the value of a run of decimal digits
RECURSIVE NatOf(_)
NatOf(ds) ==
    IF ds = <<>> THEN 0
    ELSE 10 * NatOf(SubSeq(ds, 1, Len(ds) - 1)) + DigitValue(ds[Len(ds)])

\* str(n) for n >= 0
RECURSIVE NatStr(_)
NatStr(n) ==
    IF n < 10 THEN <<DigitSeq[n + 1]>>
    ELSE NatStr(n \div 10) \o <<DigitSeq[(n % 10) + 1]>>

\* str(n)
IntStr(n) == IF n < 0 THEN <<"-">> \o NatStr(-n) ELSE NatStr(n)

RECURSIVE ZeroPad(_, _)
ZeroPad(s, width) == IF Len(s) >= width THEN s ELSE ZeroPad(<<"0">> \o s, width)

\* f"{n:02d}": zero padded to two characters, the sign counted in the width
Fmt02d(n) ==
    IF n < 0 THEN <<"-">> \o ZeroPad(NatStr(-n), 1) ELSE ZeroPad(NatStr(n), 2)

-----------------------------------------------------------------------------
(* Float model                                                             *)

Fin(m, s) == [k |-> "fin", ms |-> m, sub |-> s]
Inf(sign) == [k |-> "inf", ms |-> sign, sub |-> 0]
NaN == [k |-> "nan", ms |-> 0, sub |-> 0]
Zero == Fin(0, 0)

\* -v
FNeg(v) ==
    IF v.k = "nan" THEN NaN
    ELSE IF v.k = "inf" THEN Inf(-v.ms)
    ELSE IF v.sub = 0 THEN Fin(-v.ms, 0) ELSE Fin(-v.ms - 1, 10 - v.sub)

\* a < b (false when either is nan)
FLt(a, b) ==
    IF a.k = "nan" \/ b.k = "nan" THEN FALSE
    ELSE IF a.k = "inf" THEN a.ms < 0 /\ ~(b.k = "inf" /\ b.ms < 0)
    ELSE IF b.k = "inf" THEN b.ms > 0
    ELSE a.ms < b.ms \/ (a.ms = b.ms /\ a.sub < b.sub)

\* a <= b (false when either is nan)
FLe(a, b) == a.k # "nan" /\ b.k # "nan" /\ ~FLt(b, a)

\* a + b
FAdd(a, b) ==
    IF a.k = "nan" \/ b.k = "nan" THEN NaN
    ELSE IF a.k = "inf" /\ b.k = "inf" THEN (IF a.ms = b.ms THEN a ELSE NaN)
    ELSE IF a.k = "inf" THEN a
    ELSE IF b.k = "inf" THEN b
    ELSE Fin(a.ms + b.ms + ((a.sub + b.sub) \div 10), (a.sub + b.sub) % 10)

\* v * n for an integer n > 0
FMulInt(v, n) ==
    IF v.k # "fin" THEN v
    ELSE Fin(v.ms * n + ((v.sub * n) \div 10), (v.sub * n) % 10)

\* round(v * 1000) of a finite v: the nearest integer, a tie going to the even one
RoundMillis(v) ==
    IF v.sub < 5 THEN v.ms
    ELSE IF v.sub > 5 THEN v.ms + 1
    ELSE IF v.ms % 2 = 0 THEN v.ms ELSE v.ms + 1

\* int(v * 1000) of a finite v: truncation towards zero
TruncMillis(v) == IF v.ms >= 0 \/ v.sub = 0 THEN v.ms ELSE v.ms + 1

\* int(v) of a finite v: truncation towards zero, in whole seconds
TruncSeconds(v) ==
    IF v.ms >= 0 THEN v.ms \div 1000 ELSE -(FNeg(v).ms \div 1000)

\* n / 1000 for an integer n of milliseconds
MillisToSeconds(n) == Fin(n, 0)

Raised(e) == [exc |-> e, v |-> Zero]
Returned(x) == [exc |-> "none", v |-> x]

\* float() of an unsigned body split at its point: inf, nan, or digits with at
\* least one digit on either side of the point
FloatDigits(body, ip, fp, frac) ==
    IF body = <<"i", "n", "f">> THEN Returned(Inf(1))
    ELSE IF body = <<"n", "a", "n">> THEN Returned(NaN)
    ELSE IF /\ \A i \in 1..Len(ip) : ip[i] \in DigitChars
            /\ \A i \in 1..Len(fp) : fp[i] \in DigitChars
            /\ Len(ip) + Len(fp) > 0
    THEN Returned(Fin(NatOf(ip) * 1000 + (frac \div 10), frac % 10))
    ELSE Raised("ValueError")

\* the digits before and after the point at index dot (0: no point);
\* fractional digits beyond the fourth are below the resolution
FloatPoint(body, dot, fp) ==
    FloatDigits(body,
                IF dot = 0 THEN body ELSE SubSeq(body, 1, dot - 1),
                fp,
                NatOf(SubSeq(fp \o <<"0", "0", "0", "0">>, 1, 4)))

FloatUnsigned(body, dot) ==
    FloatPoint(body, dot,
               IF dot = 0 THEN <<>> ELSE SubSeq(body, dot + 1, Len(body)))

\* the sign applied to the value of the body
FloatSigned(negative, r) ==
    IF r.exc = "none" /\ negative THEN Returned(FNeg(r.v)) ELSE r

\* float() of a text without surrounding blanks: an optional sign, then the body
FloatStripped(t, signed) ==
    FloatSigned(signed /\ Head(t) = "-",
                FloatUnsigned(IF signed THEN Tail(t) ELSE t,
                              IndexOf(IF signed THEN Tail(t) ELSE t, ".")))

FloatSign(t) == FloatStripped(t, t # <<>> /\ Head(t) \in {"-", "+"})

\* float(text): surrounding blanks, a sign, then inf, nan or digits with at most
\* one point
PyFloat(text) == FloatSign(Strip(text))

-----------------------------------------------------------------------------
(* src/video_cutter.py: parse_timestamp, format_timestamp                  *)

\* hours * 3600 + minutes * 60 + seconds
CombineParts(hours, minutes, seconds) ==
    FAdd(FAdd(FMulInt(hours, 3600), FMulInt(minutes, 60)), seconds)

\* the two or three converted fields, combined
parse_fields(fl) ==
    IF \E i \in 1..Len(fl) : fl[i].exc # "none" THEN Raised("ValueError")
    ELSE IF Len(fl) = 3
         THEN Returned(CombineParts(fl[1].v, fl[2].v, fl[3].v))
    ELSE Returned(CombineParts(Zero, fl[1].v, fl[2].v))

\* the fields between the colons: at most three, each converted by float()
parse_parts(parts) ==
    IF Len(parts) > 3 THEN Raised("ValueError")
    ELSE parse_fields([i \in 1..Len(parts) |-> PyFloat(parts[i])])

\* parse_timestamp once the text is stripped
parse_value(value) ==
    IF value = <<>> THEN Raised("ValueError")
    ELSE IF IndexOf(value, ":") = 0 THEN PyFloat(value)
    ELSE parse_parts(Split(value, ":"))

parse_timestamp(text) == parse_value(Strip(text))

\* f"{secs:06.3f}" for secs = remainder / 1000 with 0 <= remainder < 60000
Fmt063f(remainder) ==
    ZeroPad(NatStr(remainder \div 1000), 2) \o <<".">>
        \o ZeroPad(NatStr(remainder % 1000), 3)

FormatMillis(millis) ==
    LET hours == millis \div 3600000
        rem1 == millis % 3600000
        minutes == rem1 \div 60000
        rem2 == rem1 % 60000
    IN  Fmt02d(hours) \o <<":">> \o Fmt02d(minutes) \o <<":">> \o Fmt063f(rem2)

\* a slip in format_timestamp: the milliseconds are truncated, not rounded
format_timestamp_truncating(seconds) ==
    IF seconds.k = "inf" THEN [exc |-> "OverflowError", s |-> <<>>]
    ELSE IF seconds.k = "nan" THEN [exc |-> "ValueError", s |-> <<>>]
    ELSE [exc |-> "none", s |-> FormatMillis(TruncMillis(seconds))]

\* [exc, s]: round() raises OverflowError on an infinity and ValueError on a nan
format_timestamp(seconds) ==
    IF seconds.k = "inf" THEN [exc |-> "OverflowError", s |-> <<>>]
    ELSE IF seconds.k = "nan" THEN [exc |-> "ValueError", s |-> <<>>]
    ELSE [exc |-> "none", s |-> FormatMillis(RoundMillis(seconds))]

-----------------------------------------------------------------------------
(* pathlib.Path: [parent, name], both texts; NoPath stands for None        *)

Path(parent, name) == [parent |-> parent, name |-> name]
NoPath == Path(<<>>, <<>>)

\* str(path)
PathStr(p) == IF p.parent = <<>> THEN p.name ELSE p.parent \o <<"/">> \o p.name

\* PurePath.suffix: from the last '.', unless it is the first or the last character
PathSuffix(name) ==
    LET r == RIndexOf(name, ".")
    IN  IF 1 < r /\ r < Len(name) THEN SubSeq(name, r, Len(name)) ELSE <<>>

\* PurePath.stem
PathStem(name) ==
    LET r == RIndexOf(name, ".")
    IN  IF 1 < r /\ r < Len(name) THEN SubSeq(name, 1, r - 1) ELSE name

\* PurePath.with_name
WithName(p, name) == Path(p.parent, name)

-----------------------------------------------------------------------------
(* src/video_cutter.py: build_output_path, ensure_ffmpeg_available,        *)
(* build_command                                                           *)

\* a slip in build_output_path: the whole name is kept in front of the suffix
build_output_path_keeps_name(input_path, suffix) ==
    WithName(input_path,
             input_path.name \o <<"_">> \o suffix \o PathSuffix(input_path.name))

build_output_path(input_path, suffix) ==
    WithName(input_path,
             PathStem(input_path.name) \o <<"_">> \o suffix
                 \o PathSuffix(input_path.name))

\* the eight candidate locations, in search order: two beside the executable,
\* two under sys._MEIPASS, four beside or above the module
ExeDirSlots == <<1, 2>>
MeipassSlots == <<3, 4>>
HereSlots == <<5, 6, 7, 8>>

CandidateSlots(env) ==
    ExeDirSlots \o (IF env.meipass THEN MeipassSlots ELSE <<>>) \o HereSlots

\* the path of a candidate: its directory stands as /c<slot>
CandidatePath(slot, is_windows) ==
    <<"/", "c">> \o NatStr(slot) \o <<"/", "f", "f", "m", "p", "e", "g">>
        \o (IF is_windows THEN <<".", "e", "x", "e">> ELSE <<>>)

NoException == [type |-> "none", at |-> "none"]
Exception(type, at) == [type |-> type, at |-> at]

\* env: is_windows, meipass, existing (the slots holding a regular file) and
\* which (shutil.which("ffmpeg"), <<>> for None)
ensure_ffmpeg_available(env) ==
    LET candidates == CandidateSlots(env)
        hits == {i \in 1..Len(candidates) : candidates[i] \in env.existing}
    IN  IF hits # {}
        THEN [exc |-> NoException,
              path |-> CandidatePath(
                  candidates[CHOOSE i \in hits : \A j \in hits : i <= j],
                  env.is_windows)]
        ELSE IF env.which # <<>>
        THEN [exc |-> NoException, path |-> env.which]
        ELSE [exc |-> Exception("RuntimeError", "ensure_ffmpeg_available"),
              path |-> <<>>]

\* a slip in build_command: the input is named before the seek flags
build_command_input_first(ffmpeg_path, input_file, output_file, start_ts, end_ts) ==
    << ffmpeg_path,
       <<"-", "h", "i", "d", "e", "_", "b", "a", "n", "n", "e", "r">>,
       <<"-", "l", "o", "g", "l", "e", "v", "e", "l">>,
       <<"e", "r", "r", "o", "r">>,
       <<"-", "y">>,
       <<"-", "i">>,
       PathStr(input_file),
       <<"-", "s", "s">>,
       start_ts,
       <<"-", "t", "o">>,
       end_ts,
       <<"-", "c">>,
       <<"c", "o", "p", "y">>,
       PathStr(output_file) >>

build_command(ffmpeg_path, input_file, output_file, start_ts, end_ts) ==
    << ffmpeg_path,
       <<"-", "h", "i", "d", "e", "_", "b", "a", "n", "n", "e", "r">>,
       <<"-", "l", "o", "g", "l", "e", "v", "e", "l">>,
       <<"e", "r", "r", "o", "r">>,
       <<"-", "y">>,
       <<"-", "s", "s">>,
       start_ts,
       <<"-", "t", "o">>,
       end_ts,
       <<"-", "i">>,
       PathStr(input_file),
       <<"-", "c">>,
       <<"c", "o", "p", "y">>,
       PathStr(output_file) >>

-----------------------------------------------------------------------------
(* src/video_cutter.py: cut_video, one operator per step on its frame      *)

NewFrame(input_file, start, end, output) ==
    [ pc |-> "locate",
      input_file |-> input_file, start |-> start, end |-> end, output |-> output,
      ffmpeg_path |-> <<>>,
      start_seconds |-> Zero, end_seconds |-> Zero,
      formatted_start |-> <<>>, formatted_end |-> <<>>,
      command |-> <<>>,
      exc |-> NoException,
      ret |-> NoPath ]

NoFrame == [NewFrame(NoPath, <<>>, <<>>, NoPath) EXCEPT !.pc = "not_called"]

Raise(f, type, at) == [f EXCEPT !.pc = "raised", !.exc = Exception(type, at)]

\* a slip in cut_locate: a failed search falls back to the bare tool name
cut_locate_fallback(f, env) ==
    LET r == ensure_ffmpeg_available(env)
    IN  [f EXCEPT !.ffmpeg_path =
                      IF r.exc # NoException
                      THEN <<"f", "f", "m", "p", "e", "g">> ELSE r.path,
                  !.pc = "parse_start"]

\* ffmpeg_path = ensure_ffmpeg_available()
cut_locate(f, env) ==
    LET r == ensure_ffmpeg_available(env)
    IN  IF r.exc # NoException THEN Raise(f, r.exc.type, r.exc.at)
        ELSE [f EXCEPT !.ffmpeg_path = r.path, !.pc = "parse_start"]

\* start_seconds = parse_timestamp(start)
cut_parse_start(f) ==
    LET r == parse_timestamp(f.start)
    IN  IF r.exc # "none" THEN Raise(f, r.exc, "parse_timestamp")
        ELSE [f EXCEPT !.start_seconds = r.v, !.pc = "parse_end"]

\* end_seconds = parse_timestamp(end)
cut_parse_end(f) ==
    LET r == parse_timestamp(f.end)
    IN  IF r.exc # "none" THEN Raise(f, r.exc, "parse_timestamp")
        ELSE [f EXCEPT !.end_seconds = r.v, !.pc = "validate"]

\* a slip in cut_validate: end == start passes the second check
cut_validate_allows_equal(f) ==
    IF FLt(f.start_seconds, Zero) \/ FLt(f.end_seconds, Zero)
    THEN Raise(f, "ValueError", "negative_time")
    ELSE IF FLt(f.end_seconds, f.start_seconds)
    THEN Raise(f, "ValueError", "end_not_after_start")
    ELSE [f EXCEPT !.pc = "format"]

\* the two checks on the parsed values
cut_validate(f) ==
    IF FLt(f.start_seconds, Zero) \/ FLt(f.end_seconds, Zero)
    THEN Raise(f, "ValueError", "negative_time")
    ELSE IF FLe(f.end_seconds, f.start_seconds)
    THEN Raise(f, "ValueError", "end_not_after_start")
    ELSE [f EXCEPT !.pc = "format"]

\* formatted_start, formatted_end = format_timestamp(...)
cut_format(f) ==
    LET a == format_timestamp(f.start_seconds)
        b == format_timestamp(f.end_seconds)
    IN  IF a.exc # "none" THEN Raise(f, a.exc, "format_timestamp")
        ELSE IF b.exc # "none" THEN Raise(f, b.exc, "format_timestamp")
        ELSE [f EXCEPT !.formatted_start = a.s, !.formatted_end = b.s,
                       !.pc = "command"]

\* the derived output when none was given, then build_command
cut_command(f) ==
    LET suffix == IntStr(TruncSeconds(f.start_seconds)) \o <<"s", "_">>
                      \o IntStr(TruncSeconds(f.end_seconds)) \o <<"s">>
        output == IF f.output = NoPath
                  THEN build_output_path(f.input_file, suffix)
                  ELSE f.output
    IN  [f EXCEPT !.output = output,
                  !.command = build_command(f.ffmpeg_path, f.input_file, output,
                                            f.formatted_start, f.formatted_end),
                  !.pc = "spawn"]

\* subprocess.run starts the child, or fails to (OSError) and starts none
cut_spawn(f, started) ==
    IF started THEN [f EXCEPT !.pc = "wait"]
    ELSE Raise(f, "OSError", "subprocess.run")

\* a slip in cut_wait: the exit status is not checked
cut_wait_unchecked(f, status) == [f EXCEPT !.ret = f.output, !.pc = "returned"]

\* subprocess.run(check=True) returns once the child has exited
cut_wait(f, status) ==
    IF status # 0 THEN Raise(f, "RuntimeError", "ffmpeg_failed")
    ELSE [f EXCEPT !.ret = f.output, !.pc = "returned"]

NoChild == [state |-> "none", argv |-> <<>>, status |-> 0]

-----------------------------------------------------------------------------
(* Bounds                                                                  *)

\* longest text handed to parse_timestamp by the harness
MaxTextLen == 6
\* the harness formats the values within this many milliseconds of a carry point
MaxOffsetMs == 2
\* at most this many of the candidate locations hold an ffmpeg file
MaxExisting == 1
\* the window starts at most this many trims
MaxTrims == 2

-----------------------------------------------------------------------------
(* Parked values of the processes a specification does not run             *)

TsParked == tsArg = <<>> /\ tsOut = <<>>
CliParked ==
    /\ args = <<>> /\ pc = "parked" /\ frame = <<>>
    /\ child = <<>> /\ proc = <<>> /\ log = <<>>
GuiParked ==
    /\ win = <<>> /\ dialog = <<>> /\ workers = <<>>
    /\ events = <<>> /\ fs = <<>> /\ session = <<>>

-----------------------------------------------------------------------------
(* Harness of the pure functions: one call of parse_timestamp on a text,   *)
(* or of format_timestamp and of parse_timestamp on its result             *)

TsAlphabet == {"1", ":", "-", "x", "."}

RECURSIVE TextsUpTo(_)
TextsUpTo(n) ==
    IF n = 0 THEN {<<>>}
    ELSE LET shorter == TextsUpTo(n - 1)
         IN  shorter \cup {Append(t, c) : t \in shorter, c \in TsAlphabet}

TsTexts == TextsUpTo(MaxTextLen)

\* the second, the minute, the hour and the hundredth hour, in milliseconds
CarryPoints == {0, 1000, 60000, 3600000, 360000000}

TsSeconds ==
    {Fin(b + d, t) : b \in CarryPoints, d \in (-MaxOffsetMs)..MaxOffsetMs, t \in 0..9}

TsIdle == [op |-> "idle", exc |-> "none", v |-> Zero, s |-> <<>>]

TsInit ==
    /\ tsArg \in {[kind |-> "text", text |-> t, secs |-> Zero] : t \in TsTexts}
                 \cup {[kind |-> "secs", text |-> <<>>, secs |-> x] : x \in TsSeconds}
    /\ tsOut = TsIdle
    /\ CliParked /\ GuiParked

TsParse ==
    /\ tsArg.kind = "text" /\ tsOut.op = "idle"
    /\ LET r == parse_timestamp(tsArg.text)
       IN  tsOut' = [op |-> "parse", exc |-> r.exc, v |-> r.v, s |-> <<>>]
    /\ UNCHANGED <<tsArg, cliVars, guiVars>>

TsFormat ==
    /\ tsArg.kind = "secs" /\ tsOut.op = "idle"
    /\ LET f == format_timestamp(tsArg.secs)
       IN  tsOut' = [op |-> "format", exc |-> f.exc, v |-> Zero, s |-> f.s]
    /\ UNCHANGED <<tsArg, cliVars, guiVars>>

\* parse_timestamp(format_timestamp(secs))
TsRoundTrip ==
    /\ tsOut.op = "format" /\ tsOut.exc = "none"
    /\ LET r == parse_timestamp(tsOut.s)
       IN  tsOut' = [op |-> "roundtrip", exc |-> r.exc, v |-> r.v, s |-> tsOut.s]
    /\ UNCHANGED <<tsArg, cliVars, guiVars>>

TsNext == TsParse \/ TsFormat \/ TsRoundTrip

SpecTs == TsInit /\ [][TsNext]_vars

-----------------------------------------------------------------------------
(* src/video_cutter.py: main, with cut_video run step by step              *)

InputPaths ==
    { Path(<<"v">>, <<"m", ".", "m", "p", "4">>),
      Path(<<>>, <<"a", ".", "b", ".", "c">>),
      Path(<<"v">>, <<".", "h">>) }

ExplicitOutput == Path(<<"o">>, <<"r", ".", "m", "k", "v">>)

TimeInputs ==
    { <<"5">>, <<"1", "0">>, <<"5", ".", "9">>, <<"-", "1">>, <<"0">>,
      <<"0", ".", "0", "0", "0", "4">>, <<"1", ":", "3", "0">>, <<" ", "7">>,
      <<"x">>, <<"n", "a", "n">>, <<"i", "n", "f">>, <<>> }

WhichPath == <<"/", "b", "/", "f", "f", "m", "p", "e", "g">>

Envs ==
    { [is_windows |-> w, meipass |-> m, existing |-> e, which |-> p] :
        w \in BOOLEAN, m \in BOOLEAN,
        e \in {x \in SUBSET (1..8) : Cardinality(x) <= MaxExisting},
        p \in {<<>>, WhichPath} }

\* some location the search visits holds the tool, or PATH does
ToolPresent(env) ==
    \/ env.existing \cap {1, 2, 5, 6, 7, 8} # {}
    \/ env.meipass /\ env.existing \cap {3, 4} # {}
    \/ env.which # <<>>

ExitStatuses == {0, 1}

\* "Video generado en: "
GeneratedPrefix ==
    <<"V", "i", "d", "e", "o", " ", "g", "e", "n", "e", "r", "a", "d", "o", " ",
      "e", "n", ":", " ">>

Running == [state |-> "running", code |-> -1, stdout |-> <<>>, stderr |-> NoException]
Exited(code, out, err) ==
    [state |-> "exited", code |-> code, stdout |-> out, stderr |-> err]

\* a slip in main: a RuntimeError is reported but the status stays 0
main_outcome_zero(f) ==
    IF f.pc = "returned"
    THEN Exited(0, GeneratedPrefix \o PathStr(f.ret), NoException)
    ELSE IF f.exc.type = "ValueError" THEN Exited(2, <<>>, f.exc)
    ELSE Exited(0, <<>>, f.exc)

\* how main ends once cut_video has returned or raised: the printed path and 0,
\* parser.error (status 2) for the two exception types it catches, and the
\* interpreter's traceback (status 1) for any other
main_outcome(f) ==
    IF f.pc = "returned"
    THEN Exited(0, GeneratedPrefix \o PathStr(f.ret), NoException)
    ELSE IF f.exc.type \in {"ValueError", "RuntimeError"}
    THEN Exited(2, <<>>, f.exc)
    ELSE Exited(1, <<>>, f.exc)

CliInit ==
    /\ args \in [input : InputPaths, is_file : BOOLEAN, start : TimeInputs,
                 end : TimeInputs, output : {NoPath, ExplicitOutput}]
    /\ pc = "main"
    /\ frame = NoFrame
    /\ child = NoChild
    /\ proc = Running
    /\ log = <<>>
    /\ TsParked /\ GuiParked

\* the input is no regular file: parser.error
MainInputMissing ==
    /\ pc = "main" /\ ~args.is_file
    /\ proc' = Exited(2, <<>>, Exception("parser.error", "input_missing"))
    /\ pc' = "exited"
    /\ UNCHANGED <<args, frame, child, log, tsVars, guiVars>>

\* main calls cut_video
MainCall ==
    /\ pc = "main" /\ args.is_file
    /\ frame' = NewFrame(args.input, args.start, args.end, args.output)
    /\ pc' = "cut_video"
    /\ UNCHANGED <<args, child, proc, log, tsVars, guiVars>>

CutLocate ==
    /\ pc = "cut_video" /\ frame.pc = "locate"
    /\ \E env \in Envs :
        /\ frame' = cut_locate(frame, env)
        /\ log' = Append(log, [step |-> "ensure_ffmpeg_available",
                                tool_present |-> ToolPresent(env)])
    /\ UNCHANGED <<args, pc, child, proc, tsVars, guiVars>>

Logged(step) == [step |-> step, tool_present |-> TRUE]

CutParseStart ==
    /\ pc = "cut_video" /\ frame.pc = "parse_start"
    /\ frame' = cut_parse_start(frame)
    /\ log' = Append(log, Logged("parse_timestamp"))
    /\ UNCHANGED <<args, pc, child, proc, tsVars, guiVars>>

CutParseEnd ==
    /\ pc = "cut_video" /\ frame.pc = "parse_end"
    /\ frame' = cut_parse_end(frame)
    /\ log' = Append(log, Logged("parse_timestamp"))
    /\ UNCHANGED <<args, pc, child, proc, tsVars, guiVars>>

CutValidate ==
    /\ pc = "cut_video" /\ frame.pc = "validate"
    /\ frame' = cut_validate(frame)
    /\ log' = Append(log, Logged("validate"))
    /\ UNCHANGED <<args, pc, child, proc, tsVars, guiVars>>

CutFormat ==
    /\ pc = "cut_video" /\ frame.pc = "format"
    /\ frame' = cut_format(frame)
    /\ log' = Append(log, Logged("format_timestamp"))
    /\ UNCHANGED <<args, pc, child, proc, tsVars, guiVars>>

CutCommand ==
    /\ pc = "cut_video" /\ frame.pc = "command"
    /\ frame' = cut_command(frame)
    /\ log' = Append(log, Logged("build_command"))
    /\ UNCHANGED <<args, pc, child, proc, tsVars, guiVars>>

CutSpawn ==
    /\ pc = "cut_video" /\ frame.pc = "spawn"
    /\ \E started \in BOOLEAN :
        /\ frame' = cut_spawn(frame, started)
        /\ child' = IF frame'.pc = "wait"
                    THEN [state |-> "running", argv |-> frame.command, status |-> 0]
                    ELSE child
    /\ log' = Append(log, Logged("subprocess.run"))
    /\ UNCHANGED <<args, pc, proc, tsVars, guiVars>>

\* the external tool ends with some exit status
ChildExit ==
    /\ child.state = "running"
    /\ \E status \in ExitStatuses :
        child' = [child EXCEPT !.state = "exited", !.status = status]
    /\ UNCHANGED <<args, pc, frame, proc, log, tsVars, guiVars>>

CutWait ==
    /\ pc = "cut_video" /\ frame.pc = "wait" /\ child.state = "exited"
    /\ frame' = cut_wait(frame, child.status)
    /\ UNCHANGED <<args, pc, child, proc, log, tsVars, guiVars>>

\* print the path, return 0
MainReturn ==
    /\ pc = "cut_video" /\ frame.pc = "returned"
    /\ proc' = main_outcome(frame)
    /\ pc' = "exited"
    /\ UNCHANGED <<args, frame, child, log, tsVars, guiVars>>

\* the except clause, or an exception it does not catch
MainRaised ==
    /\ pc = "cut_video" /\ frame.pc = "raised"
    /\ proc' = main_outcome(frame)
    /\ pc' = "exited"
    /\ UNCHANGED <<args, frame, child, log, tsVars, guiVars>>

Next ==
    \/ MainInputMissing \/ MainCall
    \/ CutLocate \/ CutParseStart \/ CutParseEnd \/ CutValidate \/ CutFormat
    \/ CutCommand \/ CutSpawn \/ ChildExit \/ CutWait
    \/ MainReturn \/ MainRaised

Init == CliInit

Spec == Init /\ [][Next]_vars

-----------------------------------------------------------------------------
(* src/video_cutter_gui.py: VideoCutterWindow.  The media player and the   *)
(* preview slider's position are left out; the window's fields, the two    *)
(* file dialogs, the worker threads, the posted callbacks and the session  *)
(* file are modelled.                                                      *)

VideoFiles == { Path(<<"v">>, <<"m", ".", "m", "p", "4">>) }

\* a path a session file may name that no longer exists
GonePath == Path(<<"g">>, <<"x", ".", "m", "p", "4">>)

SavePath == Path(<<"o">>, <<"r", ".", "m", "p", "4">>)

\* Path.home()
HomeDir == <<"~">>

\* what the user may type into a time field
GuiTexts == { <<"0">>, <<"x">> }

NoDuration == [k |-> "none", ms |-> 0, sub |-> 0]

\* what ffprobe may report for a file: nothing, or a duration in seconds
DurationChoices == { NoDuration, Fin(3000, 0) }

\* _get_cached_duration: None without a path or a file, else the cached or the
\* probed duration; returns the duration and the cache after the call
get_cached_duration(w, files, video_path) ==
    IF video_path = NoPath \/ video_path \notin DOMAIN files.probe
    THEN [duration |-> NoDuration, cache |-> w.duration_cache]
    ELSE IF \E e \in w.duration_cache : e.path = video_path
    THEN [duration |-> (CHOOSE e \in w.duration_cache : e.path = video_path).duration,
          cache |-> w.duration_cache]
    ELSE [duration |-> files.probe[video_path],
          cache |-> w.duration_cache
                      \cup {[path |-> video_path, duration |-> files.probe[video_path]]}]

\* int(parse_timestamp(text) * 1000) under "except ValueError": the value, the
\* fallback on a ValueError (from the parser, or from int() on a nan), or the
\* OverflowError int() raises on an infinity
MillisOr(r, fallback) ==
    IF r.exc # "none" THEN [exc |-> "none", n |-> fallback]
    ELSE IF r.v.k = "nan" THEN [exc |-> "none", n |-> fallback]
    ELSE IF r.v.k = "inf" THEN [exc |-> "OverflowError", n |-> 0]
    ELSE [exc |-> "none", n |-> TruncMillis(r.v)]

\* "... if text else fallback"
ParseMillis(text, fallback) ==
    IF text = <<>> THEN [exc |-> "none", n |-> fallback]
    ELSE MillisOr(parse_timestamp(text), fallback)

Max(a, b) == IF a >= b THEN a ELSE b
Min(a, b) == IF a <= b THEN a ELSE b

\* _save_session: the session file is overwritten with the four fields
save_session(w) ==
    [ kind |-> "object",
      file |-> IF w.file_path # NoPath THEN PathStr(w.file_path) ELSE <<>>,
      start |-> Strip(w.start_text),
      end |-> Strip(w.end_text),
      last_dir |-> w.last_dir ]

\* _normalize_times from the comparison of start and end on: the pair is put
\* in order, the fields and the slider are rewritten, the session is saved
normalize_order(w, sess, field, start, end, cache) ==
    LET fix == start >= end
        start_ms == IF fix /\ field # "start" THEN Max(0, end - 1) ELSE start
        end_ms == IF fix /\ field = "start" THEN start + 1 ELSE end
        w2 == [w EXCEPT !.start_ms = start_ms,
                        !.end_ms = end_ms,
                        !.start_text = format_timestamp(MillisToSeconds(start_ms)).s,
                        !.end_text = format_timestamp(MillisToSeconds(end_ms)).s,
                        !.slider_max_range = Max(1, end_ms - start_ms),
                        !.duration_cache = cache]
    IN  [win |-> w2,
         session |-> IF w.file_path # NoPath THEN save_session(w2) ELSE sess]

\* _normalize_times once both fields are read: the clamps to zero and to the
\* duration of the file
normalize_clamp(w, sess, field, start, end, got) ==
    LET known == got.duration # NoDuration
        duration_ms == IF known THEN TruncMillis(got.duration) ELSE 0
        clamp == known /\ start >= duration_ms
    IN  normalize_order(w, sess, field,
            IF clamp THEN Max(0, duration_ms - 1000) ELSE start,
            IF clamp THEN duration_ms ELSE IF known THEN Min(end, duration_ms) ELSE end,
            got.cache)

\* _normalize_times once the start field is read: the end field, whose
\* fallback is one second after the start
normalize_end(w, sess, files, field, ps) ==
    LET pe == IF ps.exc # "none" THEN ps
              ELSE ParseMillis(Strip(w.end_text), ps.n + 1000)
    IN  IF pe.exc # "none" THEN [win |-> w, session |-> sess]
        ELSE normalize_clamp(w, sess, field, Max(0, ps.n), pe.n,
                             get_cached_duration(w, files, w.file_path))

\* _normalize_times: the window and the session file after the call
normalize_times(w, sess, files, field) ==
    normalize_end(w, sess, files, field, ParseMillis(Strip(w.start_text), 0))

\* _update_controls
update_controls(w, enabled) ==
    [w EXCEPT !.controls_enabled = enabled, !.cut_enabled = enabled]

\* the fields set by __init__ and _update_controls(False), before _load_session
NewWindow ==
    [ phase |-> "startup",
      file_path |-> NoPath,
      last_dir |-> HomeDir,
      duration_cache |-> {},
      start_ms |-> 0,
      end_ms |-> 1000,
      slider_max_range |-> 1000,
      start_text |-> <<>>,
      end_text |-> <<>>,
      controls_enabled |-> FALSE,
      cut_enabled |-> FALSE ]

NoSessionFile == [kind |-> "missing", file |-> <<>>, start |-> <<>>, end |-> <<>>,
                  last_dir |-> <<>>]

\* the path a text names, as Path(text) splits it at its last '/'
PathOf(text) ==
    LET r == RIndexOf(text, "/")
    IN  IF r = 0 THEN Path(<<>>, text)
        ELSE Path(SubSeq(text, 1, r - 1), SubSeq(text, r + 1, Len(text)))

\* the session files on which _load_session returns at once: exists() is
\* false, read_text raises OSError, json.loads raises JSONDecodeError
IgnoredKinds == {"missing", "unreadable", "not_json"}

\* the session files on which _load_session raises what it does not catch:
\* bytes that are no text in the locale's encoding (UnicodeDecodeError from
\* read_text), a JSON value that is no object (AttributeError, no get()), an
\* object whose "file" is a number (TypeError from Path())
RaisingKinds == {"not_text", "non_object", "bad_field"}

\* _load_session: the window and the session file after the call; an
\* exception it does not catch ends the construction of the window
load_session(w, sess, files) ==
    LET run == [w EXCEPT !.phase = "running"]
        dir1 == IF sess.last_dir # <<>> THEN sess.last_dir ELSE w.last_dir
        path == PathOf(sess.file)
        w1 == [run EXCEPT !.last_dir = dir1]
        w2 == [run EXCEPT !.last_dir = path.parent]
        w3 == update_controls(
                  [w2 EXCEPT !.file_path = path,
                             !.start_text = IF sess.start # <<>> THEN sess.start
                                            ELSE w.start_text,
                             !.end_text = IF sess.end # <<>> THEN sess.end
                                          ELSE w.end_text],
                  TRUE)
    IN  IF sess.kind \in IgnoredKinds
        THEN [win |-> run, session |-> sess]
        ELSE IF sess.kind \in RaisingKinds
        THEN [win |-> [w EXCEPT !.phase = "crashed"], session |-> sess]
        ELSE IF sess.file = <<>> THEN [win |-> w1, session |-> sess]
        ELSE IF path \notin DOMAIN files.probe THEN [win |-> w2, session |-> sess]
        ELSE normalize_times(w3, sess, files, "start")

-----------------------------------------------------------------------------
(* The window's handlers, the worker threads and the event dispatcher      *)

NoDialog == [kind |-> "none", start |-> <<>>, end |-> <<>>]

\* the session files the window may find at start: none, the unreadable and
\* the corrupt ones, one written by an earlier run, one that names a file
\* since removed
SessionFiles ==
    { [NoSessionFile EXCEPT !.kind = k] : k \in IgnoredKinds \cup RaisingKinds }
    \cup {
      [kind |-> "object", file |-> <<"v", "/", "m", ".", "m", "p", "4">>,
       start |-> <<"0">>, end |-> <<"x">>, last_dir |-> <<"v">>],
      [kind |-> "object", file |-> PathStr(GonePath),
       start |-> <<>>, end |-> <<>>, last_dir |-> <<>>] }

\* for the window's trims the tool is on PATH or nowhere
GuiEnvs == {e \in Envs : e.existing = {} /\ ~e.is_windows /\ ~e.meipass}

\* the statement of cut_video a frame stands at
cut_step(f, env, started) ==
    CASE f.pc = "locate" -> cut_locate(f, env)
      [] f.pc = "parse_start" -> cut_parse_start(f)
      [] f.pc = "parse_end" -> cut_parse_end(f)
      [] f.pc = "validate" -> cut_validate(f)
      [] f.pc = "format" -> cut_format(f)
      [] f.pc = "command" -> cut_command(f)
      [] f.pc = "spawn" -> cut_spawn(f, started)
      [] OTHER -> f

RECURSIVE RunToSpawn(_, _, _)
\* cut_video from its first line to the start of the child, or to a raise
RunToSpawn(f, env, started) ==
    IF f.pc \in {"raised", "wait", "returned", "not_called"} THEN f
    ELSE RunToSpawn(cut_step(f, env, started), env, started)

\* the locals of a frame that are still read once the child runs
Locals(f) ==
    [NoFrame EXCEPT !.pc = f.pc, !.output = f.output, !.exc = f.exc, !.ret = f.ret]

\* _run_cut's hand-over: QTimer.singleShot(0, ...) with the success or the
\* failure callback and its text
Callback(id, f) ==
    [ id |-> id,
      kind |-> IF f.pc = "returned" THEN "success" ELSE "failed",
      path |-> IF f.pc = "returned" THEN PathStr(f.ret) ELSE <<>>,
      exc |-> f.exc ]

GuiInit ==
    /\ win = NewWindow
    /\ dialog = NoDialog
    /\ workers = <<>>
    /\ events = <<>>
    /\ fs \in [probe : [VideoFiles -> DurationChoices]]
    /\ session \in SessionFiles
    /\ TsParked /\ CliParked

\* the end of __init__: _load_session
LoadSession ==
    /\ win.phase = "startup"
    /\ LET r == load_session(win, session, fs)
       IN  win' = r.win /\ session' = r.session
    /\ UNCHANGED <<dialog, workers, events, fs, tsVars, cliVars>>

Idle == win.phase = "running" /\ dialog.kind = "none"

\* select_file up to the open dialog
SelectFileOpen ==
    /\ Idle
    /\ dialog' = [NoDialog EXCEPT !.kind = "open_file"]
    /\ UNCHANGED <<win, workers, events, fs, session, tsVars, cliVars>>

SelectFileCancel ==
    /\ dialog.kind = "open_file"
    /\ dialog' = NoDialog
    /\ UNCHANGED <<win, workers, events, fs, session, tsVars, cliVars>>

\* select_file once a file is chosen, _populate_default_times included
SelectFileChoose ==
    /\ dialog.kind = "open_file"
    /\ \E video_path \in VideoFiles :
        LET got == get_cached_duration(win, fs, video_path)
            w1 == [win EXCEPT
                      !.file_path = video_path,
                      !.last_dir = video_path.parent,
                      !.duration_cache = got.cache,
                      !.start_text = <<"0", "0", ":", "0", "0", ":", "0", "0">>,
                      !.end_text =
                          IF got.duration # NoDuration
                          THEN format_timestamp(got.duration).s
                          ELSE <<"0", "0", ":", "0", "0", ":", "1", "0">>]
            n == normalize_times(w1, session, fs, "start")
            w2 == update_controls(n.win, TRUE)
        IN  win' = w2 /\ session' = save_session(w2)
    /\ dialog' = NoDialog
    /\ UNCHANGED <<workers, events, fs, tsVars, cliVars>>

\* _on_time_input: the user leaves the start or the end field with some text
\* in it (editingFinished), and the handler normalizes both fields
OnTimeInput ==
    /\ Idle
    /\ \E field \in {"start", "end"}, t \in GuiTexts :
        LET w == IF field = "start" THEN [win EXCEPT !.start_text = t]
                 ELSE [win EXCEPT !.end_text = t]
            n == normalize_times(w, session, fs, field)
        IN  win' = n.win /\ session' = n.session
    /\ UNCHANGED <<dialog, workers, events, fs, tsVars, cliVars>>

\* on_cut_click up to the save dialog; the two warnings return at once
CutClick ==
    /\ Idle /\ win.cut_enabled
    /\ LET start == Strip(win.start_text)
           end == Strip(win.end_text)
       IN  dialog' = IF win.file_path = NoPath \/ start = <<>> \/ end = <<>>
                     THEN dialog
                     ELSE [kind |-> "save_file", start |-> start, end |-> end]
    /\ UNCHANGED <<win, workers, events, fs, session, tsVars, cliVars>>

SaveCancel ==
    /\ dialog.kind = "save_file"
    /\ dialog' = NoDialog
    /\ UNCHANGED <<win, workers, events, fs, session, tsVars, cliVars>>

\* on_cut_click once an output is chosen: the button is disabled and the
\* thread started
SaveConfirm ==
    /\ dialog.kind = "save_file"
    /\ Len(workers) < MaxTrims
    /\ win' = [win EXCEPT !.cut_enabled = FALSE]
    /\ workers' = Append(workers,
                         [ st |-> "started",
                           frame |-> NewFrame(win.file_path, dialog.start,
                                              dialog.end, SavePath),
                           posts |-> 0,
                           timer |-> "none",
                           ran |-> 0 ])
    /\ dialog' = NoDialog
    /\ UNCHANGED <<events, fs, session, tsVars, cliVars>>

\* _run_cut: cut_video up to the start of the child
WorkerCompute(id) ==
    /\ workers[id].st = "started"
    /\ \E env \in GuiEnvs, started \in BOOLEAN :
        LET f == RunToSpawn(workers[id].frame, env, started)
        IN  workers' = [workers EXCEPT
                           ![id].frame = Locals(f),
                           ![id].st = IF f.pc = "wait" THEN "child" ELSE "finished"]
    /\ UNCHANGED <<win, dialog, events, fs, session, tsVars, cliVars>>

\* the child of a worker ends and subprocess.run returns or raises
WorkerChildExit(id) ==
    /\ workers[id].st = "child"
    /\ \E status \in ExitStatuses :
        workers' = [workers EXCEPT
                       ![id].frame = Locals(cut_wait(workers[id].frame, status)),
                       ![id].st = "finished"]
    /\ UNCHANGED <<win, dialog, events, fs, session, tsVars, cliVars>>

\* the threads whose event loop may come to own the zero-delay timer that
\* QTimer.singleShot creates when it is called from the worker: the call names
\* no receiver, so the timer belongs either to the interface thread or to the
\* calling thread, a threading.Thread that runs no event loop
TimerThreads == {"interface", "worker"}

\* _run_cut: the except or the else branch hands its callback to
\* QTimer.singleShot and the thread ends, its locals with it; only a timer of
\* the interface thread is ever dispatched
WorkerPost(id) ==
    /\ workers[id].st = "finished"
    /\ \E thread \in TimerThreads :
        /\ events' = IF thread = "interface"
                     THEN Append(events, Callback(id, workers[id].frame))
                     ELSE events
        /\ workers' = [workers EXCEPT ![id].st = "done", ![id].posts = @ + 1,
                                      ![id].timer = thread,
                                      ![id].frame = NoFrame]
    /\ UNCHANGED <<win, dialog, fs, session, tsVars, cliVars>>

\* _on_cut_success, _on_cut_failed: the window after the callback
on_cut_done(w, e) == [w EXCEPT !.cut_enabled = TRUE]

\* the interface thread runs the oldest posted callback
Dispatch ==
    /\ events # <<>>
    /\ LET e == Head(events)
           w == on_cut_done(win, e)
       IN  /\ win' = w
           /\ session' = IF e.kind = "success" THEN save_session(w) ELSE session
           /\ workers' = [workers EXCEPT ![e.id].ran = @ + 1]
    /\ events' = Tail(events)
    /\ UNCHANGED <<dialog, fs, tsVars, cliVars>>

WorkerStep ==
    \E id \in DOMAIN workers : WorkerCompute(id) \/ WorkerChildExit(id) \/ WorkerPost(id)

GuiNext ==
    \/ LoadSession
    \/ SelectFileOpen \/ SelectFileCancel \/ SelectFileChoose
    \/ OnTimeInput
    \/ CutClick \/ SaveCancel \/ SaveConfirm
    \/ WorkerStep
    \/ Dispatch

SpecGui == GuiInit /\ [][GuiNext]_vars

\* a started thread keeps running (the child is taken to end), and the
\* interface thread's event loop keeps dispatching what is posted to it
GuiFairness ==
    /\ \A id \in 1..MaxTrims :
           WF_vars(id \in DOMAIN workers
                   /\ (WorkerCompute(id) \/ WorkerChildExit(id) \/ WorkerPost(id)))
    /\ WF_vars(Dispatch)

SpecGuiFair == GuiInit /\ [][GuiNext]_vars /\ GuiFairness

-----------------------------------------------------------------------------
(* Harness of _on_time_input: one editingFinished of the start or of the   *)
(* end field of a running window, whatever the two fields hold             *)

\* what the fields may hold: nothing, no number, zero, a negative, a time
\* inside and a time outside the longer file
NormTexts == { <<>>, <<"x">>, <<"0">>, <<"-", "5">>, <<"2">>, <<"5">> }

\* what ffprobe may report: nothing, half a second, three seconds
NormDurations == { NoDuration, Fin(500, 0), Fin(3000, 0) }

NormInit ==
    /\ \E file_path \in VideoFiles \cup {NoPath}, start_text, end_text \in NormTexts :
           win = [NewWindow EXCEPT !.phase = "running",
                                   !.file_path = file_path,
                                   !.start_text = start_text,
                                   !.end_text = end_text]
    /\ fs \in [probe : [VideoFiles -> NormDurations]]
    /\ session = NoSessionFile
    /\ dialog = NoDialog /\ workers = <<>> /\ events = <<>>
    /\ tsArg \in {[kind |-> "field", field |-> f] : f \in {"start", "end"}}
    /\ tsOut = TsIdle
    /\ CliParked

\* _on_time_input(field)
NormOnTimeInput ==
    /\ tsOut.op = "idle"
    /\ LET n == normalize_times(win, session, fs, tsArg.field)
       IN  win' = n.win /\ session' = n.session
    /\ tsOut' = [TsIdle EXCEPT !.op = "normalize_times"]
    /\ UNCHANGED <<tsArg, dialog, workers, events, fs, cliVars>>

NormNext == NormOnTimeInput

SpecNorm == NormInit /\ [][NormNext]_vars

-----------------------------------------------------------------------------
(* Claims about cut_video and main                                         *)

ParsedStart == parse_timestamp(args.start)
ParsedEnd == parse_timestamp(args.end)

BothParse == ParsedStart.exc = "none" /\ ParsedEnd.exc = "none"

InvalidRange ==
    /\ BothParse
    /\ \/ FLt(ParsedStart.v, Zero)
       \/ FLt(ParsedEnd.v, Zero)
       \/ FLe(ParsedEnd.v, ParsedStart.v)

LogHas(step) == \E i \in DOMAIN log : log[i].step = step

LogBefore(first, second) ==
    \E i, j \in DOMAIN log : i < j /\ log[i].step = first /\ log[j].step = second

\* the search of ensure_ffmpeg_available has run and there was a tool to find
ToolLocated == Len(log) >= 1 /\ log[1].tool_present
\* the search has run and there was none
ToolMissing == Len(log) >= 1 /\ ~log[1].tool_present

\* C1: when both strings parse and the start is negative, the end is negative
\* or the end is not after the start, cut_video (once it has the tool) raises
\* one of the two validation errors and starts no child process; a child
\* process is started only after both checks have passed.
C1_InvalidRangeRejected ==
    /\ InvalidRange =>
        /\ child.state = "none" /\ ~LogHas("subprocess.run")
        /\ frame.pc \notin {"format", "command", "spawn", "wait", "returned"}
        /\ (ToolLocated /\ frame.pc = "raised") =>
            /\ frame.exc.type = "ValueError"
            /\ frame.exc.at \in {"negative_time", "end_not_after_start"}
    /\ child.state # "none" =>
        /\ LogBefore("validate", "subprocess.run")
        /\ BothParse /\ ~InvalidRange

\* start "10", end "5": rejected by the second check, no child
C1_Witness ==
    /\ args.start = <<"1", "0">> /\ args.end = <<"5">>
    /\ ToolLocated /\ frame.pc = "raised"
    /\ frame.exc = Exception("ValueError", "end_not_after_start")
    /\ child.state = "none"

\* C2: when the tool cannot be located cut_video raises the locator's
\* RuntimeError before any timestamp is parsed, whatever start and end are,
\* and no child process is started; main reports that error.
C2_ToolMissingFirst ==
    ToolMissing =>
        /\ frame.pc = "raised"
        /\ frame.exc = Exception("RuntimeError", "ensure_ffmpeg_available")
        /\ ~LogHas("parse_timestamp") /\ ~LogHas("validate")
        /\ child.state = "none"
        /\ pc = "exited" => proc.stderr = frame.exc

\* a malformed start and an end before it, and still the tool-not-found error
C2_Witness ==
    /\ ToolMissing /\ pc = "exited"
    /\ args.start = <<"x">> /\ args.end = <<"-", "1">>
    /\ proc.stderr = Exception("RuntimeError", "ensure_ffmpeg_available")

\* C3: once the child has exited with a non-zero status cut_video returns no
\* output path and, when it ends, ends with the execution error; it returns
\* the output path only after the child has exited with status zero.
C3_NonZeroExitFails ==
    /\ (child.state = "exited" /\ child.status # 0) =>
        /\ frame.pc \in {"wait", "raised"}
        /\ frame.ret = NoPath
        /\ frame.pc = "raised" => frame.exc = Exception("RuntimeError", "ffmpeg_failed")
    /\ frame.pc = "returned" =>
        /\ child.state = "exited" /\ child.status = 0
        /\ frame.ret = frame.output /\ frame.ret # NoPath

C3_Witness ==
    /\ child.state = "exited" /\ child.status = 1
    /\ frame.pc = "raised"
    /\ frame.exc = Exception("RuntimeError", "ffmpeg_failed")

\* C4: main ends with status 0, the output path printed, only when cut_video
\* returned; on every failure (input missing, malformed timestamp, invalid
\* range, tool not found, tool exited non-zero) it ends with a message and a
\* non-zero status; a run that has not ended stands at a step of main or of
\* cut_video, or waits for the child.
C4_ExitStatus ==
    /\ pc = "exited" =>
        /\ proc.state = "exited"
        /\ \/ /\ proc.code = 0
              /\ frame.pc = "returned"
              /\ child.state = "exited" /\ child.status = 0
              /\ proc.stdout = GeneratedPrefix \o PathStr(frame.ret)
              /\ proc.stderr = NoException
           \/ /\ proc.code # 0
              /\ frame.pc # "returned"
              /\ proc.stdout = <<>>
              /\ proc.stderr # NoException
        /\ (~args.is_file \/ frame.exc.type \in {"ValueError", "RuntimeError"})
               => proc.code = 2
    /\ pc # "exited" =>
        /\ proc.state = "running"
        /\ \/ pc = "main"
           \/ /\ pc = "cut_video"
              /\ frame.pc \in {"locate", "parse_start", "parse_end", "validate",
                               "format", "command", "spawn", "wait", "returned",
                               "raised"}
              /\ frame.pc = "wait" => child.state \in {"running", "exited"}

\* the tool ran and failed: message and status 2
C4_Witness ==
    /\ pc = "exited" /\ proc.code = 2
    /\ child.state = "exited" /\ child.status = 1
    /\ proc.stderr = Exception("RuntimeError", "ffmpeg_failed")

\* C7: the argument vector handed to the child is the tool path, -hide_banner,
\* -loglevel, error, -y, -ss, <start>, -to, <end>, -i, <input>, -c, copy,
\* <output>, in this order, <start> and <end> being the formatter's rendering
\* of the parsed start and end.
C7_ArgumentVector ==
    child.state # "none" =>
        /\ frame.ffmpeg_path # <<>>
        /\ child.argv =
            << frame.ffmpeg_path,
               <<"-", "h", "i", "d", "e", "_", "b", "a", "n", "n", "e", "r">>,
               <<"-", "l", "o", "g", "l", "e", "v", "e", "l">>,
               <<"e", "r", "r", "o", "r">>,
               <<"-", "y">>,
               <<"-", "s", "s">>,
               format_timestamp(ParsedStart.v).s,
               <<"-", "t", "o">>,
               format_timestamp(ParsedEnd.v).s,
               <<"-", "i">>,
               PathStr(args.input),
               <<"-", "c">>,
               <<"c", "o", "p", "y">>,
               PathStr(frame.output) >>

\* the times the -ss and the -to value of the child's argument vector denote
SsTime == parse_timestamp(child.argv[7])
ToTime == parse_timestamp(child.argv[9])

\* C12: whenever cut_video has started the tool, the times denoted by the -ss
\* and -to values it passed (the formatted, millisecond-rounded timestamps)
\* satisfy 0 <= start < end.
C12_ToolTimesOrdered ==
    child.state # "none" =>
        /\ SsTime.exc = "none" /\ ToTime.exc = "none"
        /\ FLe(Zero, SsTime.v)
        /\ FLt(SsTime.v, ToTime.v)

\* start "5.9", end "1:30"
C7_Witness ==
    /\ child.state = "running"
    /\ args.start = <<"5", ".", "9">> /\ args.end = <<"1", ":", "3", "0">>
    /\ child.argv[7] = <<"0", "0", ":", "0", "0", ":", "0", "5", ".", "9", "0", "0">>
    /\ child.argv[9] = <<"0", "0", ":", "0", "1", ":", "3", "0", ".", "0", "0", "0">>

\* the whole seconds of a non-negative value: n with n <= v < n + 1
WholeSeconds(v) ==
    CHOOSE n \in 0..((v.ms \div 1000) + 1) :
        n * 1000 <= v.ms /\ v.ms < (n + 1) * 1000

ExpectedOutput ==
    IF args.output # NoPath THEN args.output
    ELSE Path(args.input.parent,
              PathStem(args.input.name) \o <<"_">>
                  \o NatStr(WholeSeconds(ParsedStart.v)) \o <<"s", "_">>
                  \o NatStr(WholeSeconds(ParsedEnd.v)) \o <<"s">>
                  \o PathSuffix(args.input.name))

\* C8: the output path handed to the tool and returned is the explicit one
\* when one is given; otherwise it lies in the input's directory and is named
\* <stem>_<whole start seconds>s_<whole end seconds>s<extension>.
C8_OutputPath ==
    /\ child.state # "none" => child.argv[14] = PathStr(ExpectedOutput)
    /\ frame.pc = "returned" => frame.ret = ExpectedOutput
    /\ (pc = "exited" /\ proc.code = 0) =>
           proc.stdout = GeneratedPrefix \o PathStr(ExpectedOutput)

\* v/m.mp4 from 5.9 to 1:30 with no output given: v/m_5s_90s.mp4
C8_Witness ==
    /\ frame.pc = "returned"
    /\ args.output = NoPath
    /\ args.input = Path(<<"v">>, <<"m", ".", "m", "p", "4">>)
    /\ args.start = <<"5", ".", "9">> /\ args.end = <<"1", ":", "3", "0">>
    /\ frame.ret = Path(<<"v">>, <<"m", "_", "5", "s", "_", "9", "0", "s", ".", "m", "p", "4">>)

-----------------------------------------------------------------------------
(* Claims about the pure functions                                         *)

Segmented(text) ==
    LET n == Len(Split(Strip(text), ":")) IN n = 2 \/ n = 3

\* a sub-field float() rejects
NonNumericField(p) == PyFloat(p).exc # "none"

\* a sub-field float() reads as a value below zero
NegativeField(p) == PyFloat(p).exc = "none" /\ FLt(PyFloat(p).v, Zero)

HasBadField(text) ==
    LET parts == Split(Strip(text), ":")
    IN  \E i \in 1..Len(parts) : NonNumericField(parts[i]) \/ NegativeField(parts[i])

\* C9: parse_timestamp raises a format error on every input with one or two
\* ':' separators in which a sub-field is negative or non-numeric; it returns
\* no seconds value for such an input.
C9_BadFieldRejected ==
    (tsOut.op = "parse" /\ Segmented(tsArg.text) /\ HasBadField(tsArg.text))
        => tsOut.exc = "ValueError"

-----------------------------------------------------------------------------
(* Claims about the window's trims                                         *)

\* the trim of worker id is in flight: its thread runs cut_video
InFlight(id) == id \in DOMAIN workers /\ workers[id].st \in {"started", "child"}

\* C5: whatever the user does (selecting a file, editing times, clicking the
\* cut button, confirming or cancelling the save dialog) and whenever workers
\* complete, at most one trim is in flight, and the cut button is disabled
\* for as long as a trim is in flight.
C5_SingleFlight ==
    /\ Cardinality({id \in DOMAIN workers : InFlight(id)}) <= 1
    /\ (\E id \in DOMAIN workers : InFlight(id)) => ~win.cut_enabled

\* a step of a worker thread: the position of some worker changes
WorkerMoved ==
    \E id \in DOMAIN workers : id \in DOMAIN workers' /\ workers'[id].st # workers[id].st

\* a callback of some worker runs on the interface thread
CallbackRan ==
    \E id \in DOMAIN workers : id \in DOMAIN workers' /\ workers'[id].ran # workers[id].ran

\* C6: for every trim the window starts, whether cut_video returns or raises,
\* the worker thread changes no state of the window itself and posts exactly
\* one completion callback, of the success or of the failure kind; that
\* callback eventually runs on the interface thread, and running it enables
\* the cut button again.
C6_CallbackRuns ==
    /\ [](\A id \in DOMAIN workers :
            /\ workers[id].posts <= 1 /\ workers[id].ran <= workers[id].posts
            /\ workers[id].st = "done" <=> workers[id].posts = 1)
    /\ [][WorkerMoved => win' = win /\ dialog' = dialog /\ session' = session]_vars
    /\ [][CallbackRan => win'.cut_enabled]_vars
    /\ \A id \in 1..MaxTrims :
           (id \in DOMAIN workers) ~> (id \in DOMAIN workers /\ workers[id].ran = 1)

-----------------------------------------------------------------------------
(* Claims about the session file and the time fields                       *)

\* no save has replaced the session file found at startup, and that file is
\* missing, unreadable or corrupt
NoPriorSession == session.kind \in IgnoredKinds \cup RaisingKinds

\* C11: at startup a session file that is missing, unreadable or corrupt (no
\* JSON, or JSON that is no object with the expected string fields) counts as
\* no prior session: loading raises no error and leaves the window as
\* constructed, running with no file selected and the controls disabled.
C11_CorruptSessionIgnored ==
    (win.phase # "startup" /\ NoPriorSession) =>
        /\ win.phase = "running"
        /\ win.file_path = NoPath
        /\ ~win.controls_enabled /\ ~win.cut_enabled

\* C13: after every normalization of the time fields, for the start or for
\* the end field, whatever the two fields held (nothing, no number, zero, a
\* negative) and whether the duration is known or not, the stored selection
\* satisfies 0 <= start_ms < end_ms and the two fields show the formatted
\* rendering of exactly these two values.
C13_SelectionOrdered ==
    tsOut.op = "normalize_times" =>
        /\ 0 <= win.start_ms /\ win.start_ms < win.end_ms
        /\ win.start_text = format_timestamp(MillisToSeconds(win.start_ms)).s
        /\ win.end_text = format_timestamp(MillisToSeconds(win.end_ms)).s

====
